---- MODULE Spec2Model ----
(***************************************************************************)
(* Model of the message dispatch scheduler (messege_scheduler.py) and of   *)
(* the rate limiter it consults (anti_ban_system.py).                      *)
(*                                                                         *)
(* A job is a Python dict; the model names each dict by an integer id and  *)
(* keeps its mutable fields in jobs[id], so that two queue entries holding *)
(* the same dict alias the same fields.  Two different dicts are never     *)
(* equal (their added_time differs).  Time is datetime.now() in seconds,   *)
(* observed every TICK seconds.                                            *)
(*                                                                         *)
(* Each processing loop is a thread with its own position (pc).  The       *)
(* statements a loop runs between two of its waiting points (the loop      *)
(* head, the pop, the transport call) are one step.                        *)
(***************************************************************************)
EXTENDS Integers, Sequences, FiniteSets, TLC

(***************************************************************************)
(* Bounds of the model.                                                    *)
(***************************************************************************)
MaxJobs == 2
MaxThreads == 2
MaxTicks == 6
MaxOps == 3
CtlTicks == 1
MaxU == 4

(***************************************************************************)
(* Program constants.                                                      *)
(***************************************************************************)
MAX_MESSAGES_PER_HOUR == 30
HOUR == 3600
DENY_DELAY == 300
RETRY_STEP == 60
MAX_RETRIES == 3
RETRY_PRIORITY_SHIFT == 5
DENY_PRIORITY == 1
CAMPAIGN_PRIORITY == 3
DAY == 86400
daily_limit == 200
DAILY_MIN_RECORDS == 100
DAILY_WINDOW == 200
\* Delays are in milliseconds.
min_delay == 2000
max_delay == 10000
NIGHT_END == 6
\* The night factor 0.7, in tenths.
NIGHT_FACTOR_TENTHS == 7
delay_patterns == << <<3500, 4500, 3200>>, <<4000, 3000, 5000>>,
                    <<2500, 3500, 4500>>, <<3000, 4000, 3500>> >>

\* Python None; as max_messages it is falsy like 0 (line 169).
None == 0

\* Inputs the callers are given in the model.
Priorities == {3, 5}
TICK == RETRY_STEP
SendDelays == {TICK, 2 * TICK}
Preloads == {0, MAX_MESSAGES_PER_HOUR - 1, MAX_MESSAGES_PER_HOUR}
\* Histories on both sides of the 50% and 80% load tiers, and hours of the
\* day on both sides of the night.
DelayPreloads == {0, 15, 16, 24, 25}
Hours == {0, 5, 6, 12, 23}
LOADED_AGE == HOUR - 2 * TICK
\* Loaded records of the last day leave it after one tick.
DAY_AGE == DAY - TICK
\* Histories on both sides of the daily limit and of the 100-record guard.
AncientLoads == {0, 150}
DayLoads == {0, 171, 199, 200}
HourLoads == {0, MAX_MESSAGES_PER_HOUR - 1, MAX_MESSAGES_PER_HOUR}

JobIds == 1..MaxJobs
ThreadIds == 1..MaxThreads

VARIABLES
    now,              \* datetime.now(), seconds
    is_running,       \* MessageScheduler.is_running
    is_paused,        \* MessageScheduler.is_paused
    current_thread,   \* MessageScheduler.current_thread (None or a thread id)
    ops,              \* history: number of start/stop/pause/resume calls
    joining,          \* the controlling thread is inside stop()'s join
    threads,          \* the threads running _process_queue, with their locals
    message_queue,    \* Queue(): sequence of job ids
    priority_queue,   \* PriorityQueue(): heap array of <<key, job id>>
    jobs,             \* the queue_item dicts by id
    njobs,            \* number of dicts created so far
    stats,            \* MessageScheduler.stats (last_sent, only printed, is left out)
    message_history,  \* AntiBanSystem.message_history (timestamps)
    hourly_limit,     \* AntiBanSystem.hourly_limit
    stub,             \* behaviour of the injected transport
    disk,             \* behaviour of the file system when MESSAGES_DB is written
    calls,            \* history: transport invocations per job
    delivered,        \* history: transport successes per job
    dropped,          \* history: "not sent after 3 attempts" reports per job
    last,             \* history: what the last step did and whether it printed the statistics
    late,             \* history: work the loops began while stopped or paused
    ret,              \* history: outcome of the last call made from outside the loop
    current_pattern,      \* AntiBanSystem.current_pattern
    position_in_pattern,  \* AntiBanSystem.position_in_pattern
    sent_messages_count,  \* AntiBanSystem.sent_messages_count
    file                  \* the file MESSAGES_DB: what was last written to it

vars == <<now, is_running, is_paused, current_thread, ops, joining, threads,
          message_queue, priority_queue, jobs, njobs, stats, message_history,
          hourly_limit, stub, disk, calls, delivered, dropped, last, late, ret,
          current_pattern, position_in_pattern, sent_messages_count, file>>

NoThread == [pc |-> "none", item |-> None, now |-> 0, messages_sent |-> 0,
             max_messages |-> None, auto_stop |-> FALSE]
NoJob == [priority |-> 0, send_time |-> 0, attempts |-> 0]
Quiet == [op |-> "none", t |-> None, job |-> None, snapshot |-> FALSE]
NoRet == [op |-> "none"]
\* late.stop: transport calls begun while is_running was cleared (since the
\* last accepted start); late.pause: jobs popped while is_paused was set
\* (since it was last set).
NotLate == [stop |-> 0, pause |-> 0]

(***************************************************************************)
(* queue.PriorityQueue: a binary heap (heapq) of tuples (key, dict).       *)
(* Tuples compare by key first; with equal keys Python compares the dicts: *)
(* the same dict compares equal (no error), two different dicts raise      *)
(* TypeError.  Lt yields "T", "F" or "E" (TypeError).                      *)
(***************************************************************************)
Lt(a, b) ==
    IF a[1] # b[1] THEN (IF a[1] < b[1] THEN "T" ELSE "F")
    ELSE IF a[2] = b[2] THEN "F"
    ELSE "E"

Swap(h, i, j) == [h EXCEPT ![i] = h[j], ![j] = h[i]]

\* heapq siftdown: positions are 1-based here (Python position p is p+1).
RECURSIVE siftdown(_, _, _)
siftdown(h, startpos, pos) ==
    IF pos > startpos
    THEN LET parentpos == pos \div 2
             cmp == Lt(h[pos], h[parentpos])
         IN  IF cmp = "E" THEN [heap |-> h, err |-> TRUE]
             ELSE IF cmp = "F" THEN [heap |-> h, err |-> FALSE]
             ELSE siftdown(Swap(h, pos, parentpos), startpos, parentpos)
    ELSE [heap |-> h, err |-> FALSE]

\* heapq siftup: move the smaller child up until a leaf, then siftdown.
RECURSIVE siftup(_, _, _)
siftup(h, startpos, pos) ==
    LET endpos == Len(h)
        limit == endpos \div 2
    IN  IF pos <= limit
        THEN LET left == 2 * pos
                 cmp == IF left + 1 <= endpos THEN Lt(h[left], h[left + 1]) ELSE "T"
                 childpos == IF cmp = "T" THEN left ELSE left + 1
             IN  IF cmp = "E" THEN [heap |-> h, err |-> TRUE]
                 ELSE siftup(Swap(h, pos, childpos), startpos, childpos)
        ELSE siftdown(h, startpos, pos)

\* heapq.heappush as run by PriorityQueue.put: the entry is appended before
\* it is sifted, so it stays in the list when the comparison raises.
heappush(h, e) == siftdown(Append(h, e), 1, Len(h) + 1)

\* heapq.heappop as run by PriorityQueue.get (h non-empty): the last entry
\* replaces the root; when sifting raises, the old root is returned to nobody.
heappop(h) ==
    LET lastelt == h[Len(h)]
        rest == SubSeq(h, 1, Len(h) - 1)
    IN  IF rest = <<>> THEN [heap |-> rest, err |-> FALSE, item |-> lastelt]
        ELSE LET r == siftup([rest EXCEPT ![1] = lastelt], 1, 1)
             IN  [heap |-> r.heap, err |-> r.err, item |-> h[1]]

(***************************************************************************)
(* AntiBanSystem                                                           *)
(***************************************************************************)
\* The number of records of h with a timestamp later than t.
CountAfter(h, t) == Cardinality({i \in 1..Len(h) : h[i] > t})

\* get_messages_last_hour: records with timestamp > now - 1 hour.
get_messages_last_hour(h, t) == CountAfter(h, t - HOUR)

\* The last n entries of a list: h[-n:].
LastRecords(h, n) == IF Len(h) <= n THEN h ELSE SubSeq(h, Len(h) - n + 1, Len(h))

\* check_limits without its daily part.
check_limitsHourlyOnly(h, limit, t) == ~(get_messages_last_hour(h, t) >= limit)

\* check_limits: TRUE when sending is allowed.  The daily count is taken
\* only when the history has more than DAILY_MIN_RECORDS entries, over its
\* last DAILY_WINDOW entries.
check_limits(h, limit, t) ==
    IF get_messages_last_hour(h, t) >= limit THEN FALSE
    ELSE IF /\ Len(h) > DAILY_MIN_RECORDS
            /\ CountAfter(LastRecords(h, DAILY_WINDOW), t - DAY) >= daily_limit
    THEN FALSE
    ELSE TRUE

\* record_message_sent appending the record twice.
record_message_sentTwice(h, t) == Append(Append(h, t), t)

\* record_message_sent: append one record stamped with the current time.
record_message_sent(h, t) == Append(h, t)

\* Line 75: the history is saved when the running total is a multiple of 10.
SAVE_EVERY == 10

\* The trigger of save_history firing on every call.
save_dueAlways(count) == TRUE

save_due(count) == count % SAVE_EVERY = 0

\* save_history: the file is rewritten with the last 1000 records and the
\* running total (last_update is left out).
HISTORY_KEPT == 1000
save_history(h, count) ==
    [shape |-> "object", history |-> LastRecords(h, HISTORY_KEPT),
     total |-> count]

\* How a write of the file can end: it succeeds; open() fails and the file
\* stays as it was; or the file is truncated by open() and the dump fails.
Disks == {"ok", "readonly", "full"}
Truncated == [shape |-> "not_json", history |-> <<>>, total |-> 0]
write_file(d, old, data) ==
    IF d = "ok" THEN data ELSE IF d = "readonly" THEN old ELSE Truncated

\* save_history letting the error of a failed write out.
save_raisesUncaught(d) == d # "ok"

\* Lines 56-60: whether an error of the write leaves save_history; the
\* except clause catches every Exception and prints it.
save_raises(d) == FALSE

\* random.uniform(a, b) = a + (b - a) * random(), with random() = u / MaxU.
uniform(a, b, u) == a + ((b - a) * u) \div MaxU

\* The load tiers of get_smart_delay (lines 105 and 107): more than 80% and
\* more than 50% of the hourly limit.
HighLoad(m, limit) == 10 * m > 8 * limit
MidLoad(m, limit) == 10 * m > 5 * limit

\* NextCursor staying in the same pattern after its third value.
NextCursorSamePattern(cp, pos) ==
    IF pos + 1 >= Len(delay_patterns[cp + 1])
    THEN [current_pattern |-> cp, position_in_pattern |-> 0]
    ELSE [current_pattern |-> cp, position_in_pattern |-> pos + 1]

\* Lines 118-121: the next position of the cadence cursor.
NextCursor(cp, pos) ==
    IF pos + 1 >= Len(delay_patterns[cp + 1])
    THEN [current_pattern |-> (cp + 1) % Len(delay_patterns),
          position_in_pattern |-> 0]
    ELSE [current_pattern |-> cp, position_in_pattern |-> pos + 1]

\* The cursor after a call of get_smart_delay with m sends in the last hour.
CursorAfter(m, limit, cp, pos) ==
    IF HighLoad(m, limit) \/ MidLoad(m, limit)
    THEN [current_pattern |-> cp, position_in_pattern |-> pos]
    ELSE NextCursor(cp, pos)

\* Lines 105-115: the delay before it is clamped, in milliseconds.
BaseDelay(m, limit, cp, pos, u) ==
    IF HighLoad(m, limit) THEN uniform(8000, 15000, u)
    ELSE IF MidLoad(m, limit) THEN uniform(5000, 10000, u)
    ELSE delay_patterns[cp + 1][pos + 1] + uniform(0 - 500, 500, u)

Min(a, b) == IF a < b THEN a ELSE b
Max(a, b) == IF a > b THEN a ELSE b

\* Line 128: night time.
Night(hour) == 0 <= hour /\ hour < NIGHT_END

\* round(delay, 2) of a delay given as num / 10 milliseconds: the nearest
\* hundredth of a second (a tie goes up), in milliseconds.
Round2(num) == ((num + 50) \div 100) * 10

\* get_smart_delay without the clamp of line 124.
get_smart_delayUnclamped(m, limit, cp, pos, u, hour) ==
    LET delay == BaseDelay(m, limit, cp, pos, u)
    IN  Round2(IF Night(hour) THEN delay * NIGHT_FACTOR_TENTHS ELSE delay * 10)

\* get_smart_delay: the returned delay in milliseconds, for m sends in the
\* last hour, the cursor (cp, pos), the random draw u and the hour of day.
get_smart_delay(m, limit, cp, pos, u, hour) ==
    LET delay == Max(min_delay, Min(BaseDelay(m, limit, cp, pos, u), max_delay))
    IN  Round2(IF Night(hour) THEN delay * NIGHT_FACTOR_TENTHS ELSE delay * 10)

(***************************************************************************)
(* MessageScheduler: the state after construction.  The history is what    *)
(* load_history found: nothing, or records of an earlier process.          *)
(***************************************************************************)
\* The loaded records are LOADED_AGE old when the process starts.
Loaded(n) == [i \in 1..n |-> 0 - LOADED_AGE]

\* A loaded history in the order it was recorded: records older than a
\* day, then records that are DAY_AGE old, then records of the last hour.
History(ancient, day, hour) ==
    [i \in 1..(ancient + day + hour) |->
        IF i <= ancient THEN 0 - 2 * DAY
        ELSE IF i <= ancient + day THEN 0 - DAY_AGE
        ELSE 0 - LOADED_AGE]

\* files: what load_history read; disks: how later writes of the file end.
InitFile(stubs, files, disks) ==
    /\ now = 0
    /\ is_running = FALSE
    /\ is_paused = FALSE
    /\ current_thread = None
    /\ ops = 0
    /\ joining = FALSE
    /\ threads = [t \in ThreadIds |-> NoThread]
    /\ message_queue = <<>>
    /\ priority_queue = <<>>
    /\ jobs = [j \in JobIds |-> NoJob]
    /\ njobs = 0
    /\ stats = [total_sent |-> 0, total_failed |-> 0, start_time |-> None]
    /\ file \in files
    /\ message_history = file.history
    /\ hourly_limit = MAX_MESSAGES_PER_HOUR
    /\ stub \in stubs
    /\ disk \in disks
    /\ calls = [j \in JobIds |-> 0]
    /\ delivered = [j \in JobIds |-> 0]
    /\ dropped = [j \in JobIds |-> 0]
    /\ last = Quiet
    /\ late = NotLate
    /\ ret = NoRet
    /\ current_pattern = 0
    /\ position_in_pattern = 0
    /\ sent_messages_count = file.total

InitHistory(stubs, histories) ==
    InitFile(stubs,
             {[shape |-> "object", history |-> h, total |-> Len(h)] :
                 h \in histories},
             {"ok"})

InitWith(stubs, preloads) == InitHistory(stubs, {Loaded(n) : n \in preloads})

Init == InitWith({"any"}, Preloads)

\* Frames.
Call == ~joining /\ ops' = ops + 1
ControlFrame == UNCHANGED <<now, threads, stats, message_history, hourly_limit,
                            stub, disk, calls, delivered, dropped, ret,
                            current_pattern, position_in_pattern,
                            sent_messages_count, file>>
QueueFrame == UNCHANGED <<message_queue, priority_queue, jobs, njobs>>

(***************************************************************************)
(* Operations of the controlling thread.                                   *)
(***************************************************************************)
\* The routing test sending every job to the immediate queue.
has_send_timeNever(delay) == FALSE

\* Line 80, `if send_time:`; a datetime is always true, None is not.
has_send_time(delay) == delay # None

\* add_message_to_queue(chat_id, message, priority, send_time).  delay = None
\* is a call without send_time.  A TypeError of put reaches the caller with
\* the entry already appended.
add_message_to_queue(priority, delay) ==
    /\ ~joining
    /\ njobs < MaxJobs
    /\ LET id == njobs + 1
           send_time == IF delay = None THEN now ELSE now + delay
           r == heappush(priority_queue, <<priority, id>>)
       IN  /\ jobs' = [jobs EXCEPT ![id] = [priority |-> priority,
                                            send_time |-> send_time,
                                            attempts |-> 0]]
           /\ njobs' = id
           /\ IF has_send_time(delay)
              THEN /\ priority_queue' = r.heap
                   /\ message_queue' = message_queue
                   /\ last' = IF r.err
                              THEN [op |-> "add_error", t |-> None,
                                    job |-> id, snapshot |-> FALSE]
                              ELSE Quiet
              ELSE /\ message_queue' = Append(message_queue, id)
                   /\ priority_queue' = priority_queue
                   /\ last' = Quiet
    /\ UNCHANGED <<is_running, is_paused, current_thread, ops, joining, late>>
    /\ ControlFrame

\* Lines 360-376 of create_broadcast_campaign: the adds from the n-th on, of
\* total = len(chat_ids) * messages_count, made at time t.  c holds the dicts
\* and the two queues; the loop ends when a put raises.
RECURSIVE CampaignAdds(_, _, _, _, _, _)
CampaignAdds(c, n, total, messages_count, delay_between, t) ==
    IF n > total \/ c.raised THEN c
    ELSE LET i == (n - 1) % messages_count
             id == c.njobs + 1
             msg_delay == IF delay_between # None THEN delay_between * (i + 1)
                          ELSE None
             item == [priority |-> CAMPAIGN_PRIORITY,
                      send_time |-> IF msg_delay # None THEN t + msg_delay ELSE t,
                      attempts |-> 0]
             r == heappush(c.heap, <<CAMPAIGN_PRIORITY, id>>)
             added == IF msg_delay # None
                      THEN [c EXCEPT !.jobs[id] = item, !.njobs = id,
                                     !.heap = r.heap, !.raised = r.err]
                      ELSE [c EXCEPT !.jobs[id] = item, !.njobs = id,
                                     !.fifo = Append(c.fifo, id)]
         IN  CampaignAdds(added, n + 1, total, messages_count, delay_between, t)

\* create_broadcast_campaign(chat_ids, message, messages_count, delay_between)
\* with len(chat_ids) = chats.  A TypeError of a put ends the call.
create_broadcast_campaign(chats, messages_count, delay_between) ==
    /\ ~joining
    /\ njobs + chats * messages_count <= MaxJobs
    /\ LET c == CampaignAdds([jobs |-> jobs, njobs |-> njobs,
                              fifo |-> message_queue, heap |-> priority_queue,
                              raised |-> FALSE],
                             1, chats * messages_count, messages_count,
                             delay_between, now)
       IN  /\ jobs' = c.jobs
           /\ njobs' = c.njobs
           /\ message_queue' = c.fifo
           /\ priority_queue' = c.heap
           /\ ret' = [op |-> "create_broadcast_campaign", raised |-> c.raised,
                      chats |-> chats, messages_count |-> messages_count,
                      delay_between |-> delay_between, first |-> njobs,
                      time |-> now]
    /\ last' = [op |-> "campaign", t |-> None, job |-> None, snapshot |-> FALSE]
    /\ UNCHANGED <<now, is_running, is_paused, current_thread, ops, joining,
                   threads, stats, message_history, hourly_limit, stub, disk, calls,
                   delivered, dropped, late, current_pattern,
                   position_in_pattern, sent_messages_count, file>>

\* The statistics of a start that begins a fresh count.
startedFresh(st, t) == [total_sent |-> 0, total_failed |-> 0, start_time |-> t]

\* Line 125: start() stamps the statistics and leaves the counters alone.
started(st, t) == [st EXCEPT !.start_time = t]

\* start without the is_running check of line 118.
startUnguarded(max_messages, auto_stop) ==
    /\ Call
    /\ \E t \in ThreadIds :
         /\ threads[t].pc = "none"
         /\ \A u \in ThreadIds : u < t => threads[u].pc # "none"
         /\ threads' = [threads EXCEPT ![t] =
                          [NoThread EXCEPT !.pc = "top",
                                           !.max_messages = max_messages,
                                           !.auto_stop = auto_stop]]
         /\ current_thread' = t
    /\ is_running' = TRUE
    /\ is_paused' = FALSE
    /\ stats' = started(stats, now)
    /\ last' = [op |-> "start", t |-> None, job |-> None, snapshot |-> FALSE]
    /\ late' = NotLate
    /\ UNCHANGED <<now, joining, message_history, hourly_limit, stub, disk, calls,
                   delivered, dropped, message_queue, priority_queue, jobs, njobs,
                   ret, current_pattern, position_in_pattern,
                   sent_messages_count, file>>

\* start(max_messages, auto_stop)
start(max_messages, auto_stop) ==
    /\ Call
    /\ IF is_running
       THEN /\ UNCHANGED <<is_running, is_paused, current_thread, threads, stats,
                           late>>
            /\ last' = [op |-> "start_refused", t |-> None, job |-> None, snapshot |-> FALSE]
       ELSE /\ \E t \in ThreadIds :
                 /\ threads[t].pc = "none"
                 /\ \A u \in ThreadIds : u < t => threads[u].pc # "none"
                 /\ threads' = [threads EXCEPT ![t] =
                                  [NoThread EXCEPT !.pc = "top",
                                                   !.max_messages = max_messages,
                                                   !.auto_stop = auto_stop]]
                 /\ current_thread' = t
            /\ is_running' = TRUE
            /\ is_paused' = FALSE
            /\ stats' = started(stats, now)
            /\ last' = [op |-> "start", t |-> None, job |-> None, snapshot |-> FALSE]
            /\ late' = NotLate
    /\ UNCHANGED <<now, joining, message_history, hourly_limit, stub, disk, calls,
                   delivered, dropped, ret, current_pattern, position_in_pattern,
                   sent_messages_count, file>>
    /\ QueueFrame

Alive(t) == threads[t].pc \notin {"none", "done", "raised"}

\* stop(), up to the join: the flag is cleared, then the caller waits for
\* current_thread.
stop ==
    /\ Call
    /\ is_running' = FALSE
    /\ joining' = (current_thread # None /\ Alive(current_thread))
    /\ last' = Quiet
    /\ UNCHANGED <<is_paused, current_thread, late>>
    /\ ControlFrame /\ QueueFrame

\* join(timeout=5) returns: the thread has ended, or it is inside a transport
\* send (pacing delay of up to 10 s plus the transmission) and 5 s passed.
join_returns ==
    /\ joining
    /\ ops' = ops
    /\ \/ ~Alive(current_thread)
       \/ threads[current_thread].pc = "xmit"
    /\ joining' = FALSE
    /\ last' = IF Alive(current_thread)
               THEN [op |-> "join_timeout", t |-> None, job |-> None, snapshot |-> FALSE]
               ELSE Quiet
    /\ UNCHANGED <<is_running, is_paused, current_thread, late>>
    /\ ControlFrame /\ QueueFrame

pause ==
    /\ Call
    /\ is_paused' = TRUE
    /\ last' = Quiet
    /\ UNCHANGED <<is_running, current_thread, joining, late>>
    /\ ControlFrame /\ QueueFrame

resume ==
    /\ Call
    /\ is_paused' = FALSE
    /\ last' = Quiet
    /\ late' = [late EXCEPT !.pause = 0]
    /\ UNCHANGED <<is_running, current_thread, joining>>
    /\ ControlFrame /\ QueueFrame

\* What the caller writes into a dict it was handed.
Scribble == [total_sent |-> 0 - 1, total_failed |-> 0 - 1, start_time |-> None]

StatusFrame == UNCHANGED <<now, is_running, is_paused, current_thread, ops,
                           joining, threads, message_history, hourly_limit,
                           stub, disk, calls, delivered, dropped, late,
                           current_pattern, position_in_pattern,
                           sent_messages_count, file>>

\* get_queue_status returning self.stats itself instead of a copy.
get_queue_statusShared ==
    /\ ret' = [op |-> "get_queue_status",
               immediate_queue |-> Len(message_queue),
               scheduled_queue |-> Len(priority_queue),
               is_running |-> is_running,
               is_paused |-> is_paused,
               stats |-> stats,
               shared |-> TRUE]
    /\ last' = [op |-> "status", t |-> None, job |-> None, snapshot |-> FALSE]
    /\ stats' = stats
    /\ StatusFrame /\ QueueFrame

\* get_queue_status(): the sizes of the two queues, the two flags and a copy
\* of stats (shared tells whether the returned 'stats' is the scheduler's own
\* dict).  Any thread may call it at any time.
get_queue_status ==
    /\ ret' = [op |-> "get_queue_status",
               immediate_queue |-> Len(message_queue),
               scheduled_queue |-> Len(priority_queue),
               is_running |-> is_running,
               is_paused |-> is_paused,
               stats |-> stats,
               shared |-> FALSE]
    /\ last' = [op |-> "status", t |-> None, job |-> None, snapshot |-> FALSE]
    /\ stats' = stats
    /\ StatusFrame /\ QueueFrame

\* The caller overwrites the entries of the 'stats' dict it was returned.
mutate_returned ==
    /\ ret.op = "get_queue_status"
    /\ ret.stats # Scribble
    /\ ret' = [ret EXCEPT !.stats = Scribble]
    /\ stats' = IF ret.shared THEN Scribble ELSE stats
    /\ last' = [op |-> "mutate", t |-> None, job |-> None, snapshot |-> FALSE]
    /\ StatusFrame /\ QueueFrame

\* A call of get_smart_delay() with the random draw u at the given hour of
\* the day: the delay is returned and, under low load, the cursor moves.
smart_delay(u, hour) ==
    /\ LET m == get_messages_last_hour(message_history, now)
           c == CursorAfter(m, hourly_limit, current_pattern,
                            position_in_pattern)
       IN  /\ ret' = [op |-> "get_smart_delay", hour |-> hour,
                      delay |-> get_smart_delay(m, hourly_limit, current_pattern,
                                                position_in_pattern, u, hour)]
           /\ current_pattern' = c.current_pattern
           /\ position_in_pattern' = c.position_in_pattern
    /\ last' = Quiet
    /\ UNCHANGED <<now, is_running, is_paused, current_thread, ops, joining,
                   threads, stats, message_history, hourly_limit, stub, disk, calls,
                   delivered, dropped, late, sent_messages_count, file>>
    /\ QueueFrame

\* The file MESSAGES_DB as load_history may find it: missing, not JSON, JSON
\* that is not an object (a list), an object without the keys, or an object
\* as save_history writes it.
Files ==
    {[shape |-> sh, history |-> <<>>, total |-> 0] :
        sh \in {"missing", "not_json", "list", "object_empty"}}
    \cup {[shape |-> "object", history |-> Loaded(n), total |-> n] : n \in Preloads}

\* load_history(), line 36 of the constructor.  Only FileNotFoundError and
\* JSONDecodeError are caught; data.get on a list raises AttributeError
\* before anything is assigned.
load_history(f) ==
    /\ ret' = [op |-> "load_history", file |-> f.shape,
               raised |-> (f.shape = "list")]
    /\ message_history' =
          IF f.shape \in {"missing", "not_json", "object_empty"} THEN <<>>
          ELSE IF f.shape = "object" THEN f.history
          ELSE message_history
    /\ sent_messages_count' =
          IF f.shape \in {"missing", "not_json", "object_empty"} THEN 0
          ELSE IF f.shape = "object" THEN f.total
          ELSE sent_messages_count
    /\ last' = [op |-> "load", t |-> None, job |-> None, snapshot |-> FALSE]
    /\ file' = f
    /\ UNCHANGED <<now, is_running, is_paused, current_thread, ops, joining,
                   threads, stats, hourly_limit, stub, disk, calls, delivered,
                   dropped, late, current_pattern, position_in_pattern>>
    /\ QueueFrame

\* The clock advances.
Tick ==
    /\ now + TICK <= TICK * MaxTicks
    /\ now' = now + TICK
    /\ last' = Quiet
    /\ UNCHANGED <<is_running, is_paused, current_thread, ops, joining, threads,
                   stats, message_history, hourly_limit, stub, disk, calls,
                   delivered, dropped, late, ret, current_pattern,
                   position_in_pattern, sent_messages_count, file>>
    /\ QueueFrame

(***************************************************************************)
(* The processing loop, _process_queue, run by each spawned thread.        *)
(***************************************************************************)
LoopFrame == UNCHANGED <<now, ops, joining, is_paused, current_thread, njobs,
                         hourly_limit, stub, disk, ret>>

\* FailPath that does not count the attempt.
FailPathNoCount(js, heap, j, lnow) ==
    IF js[j].attempts < MAX_RETRIES
    THEN LET retry_delay == RETRY_STEP * (js[j].attempts + 1)
             r == heappush(heap, <<js[j].priority + RETRY_PRIORITY_SHIFT, j>>)
         IN  [jobs |-> [js EXCEPT ![j].send_time = lnow + retry_delay],
              heap |-> r.heap, err |-> r.err, drop |-> FALSE]
    ELSE [jobs |-> js, heap |-> heap, err |-> FALSE, drop |-> TRUE]

\* FailPath that gives up one retry earlier.
FailPathTwoRetries(js, heap, j, lnow) ==
    IF js[j].attempts < MAX_RETRIES - 1
    THEN LET attempts == js[j].attempts + 1
             retry_delay == RETRY_STEP * attempts
             r == heappush(heap, <<js[j].priority + RETRY_PRIORITY_SHIFT, j>>)
         IN  [jobs |-> [js EXCEPT ![j].attempts = attempts,
                                  ![j].send_time = lnow + retry_delay],
              heap |-> r.heap, err |-> r.err, drop |-> FALSE]
    ELSE [jobs |-> js, heap |-> heap, err |-> FALSE, drop |-> TRUE]

\* FailPath with the same delay before every retry.
FailPathFlatDelay(js, heap, j, lnow) ==
    IF js[j].attempts < MAX_RETRIES
    THEN LET attempts == js[j].attempts + 1
             retry_delay == RETRY_STEP
             r == heappush(heap, <<js[j].priority + RETRY_PRIORITY_SHIFT, j>>)
         IN  [jobs |-> [js EXCEPT ![j].attempts = attempts,
                                  ![j].send_time = lnow + retry_delay],
              heap |-> r.heap, err |-> r.err, drop |-> FALSE]
    ELSE [jobs |-> js, heap |-> heap, err |-> FALSE, drop |-> TRUE]

\* FailPath that queues the retry under a numerically lower key.
FailPathPromote(js, heap, j, lnow) ==
    IF js[j].attempts < MAX_RETRIES
    THEN LET attempts == js[j].attempts + 1
             retry_delay == RETRY_STEP * attempts
             r == heappush(heap, <<js[j].priority - 1, j>>)
         IN  [jobs |-> [js EXCEPT ![j].attempts = attempts,
                                  ![j].send_time = lnow + retry_delay],
              heap |-> r.heap, err |-> r.err, drop |-> FALSE]
    ELSE [jobs |-> js, heap |-> heap, err |-> FALSE, drop |-> TRUE]

\* Lines 219-221: after an item was processed, _print_stats is called when
\* the run's count of successful sends is a multiple of 10; it prints because
\* start() has set stats['start_time'] before any loop runs (line 290).
STATS_EVERY == 10
print_stats(messages_sent) == messages_sent % STATS_EVERY = 0

\* Lines 205-217: the branch taken when _send_message returned False.
\* lnow is the `now` read at line 187.  Yields the dicts, the heap, whether
\* put raised and whether the job was reported as not sent.
FailPath(js, heap, j, lnow) ==
    IF js[j].attempts < MAX_RETRIES
    THEN LET attempts == js[j].attempts + 1
             retry_delay == RETRY_STEP * attempts
             r == heappush(heap, <<js[j].priority + RETRY_PRIORITY_SHIFT, j>>)
         IN  [jobs |-> [js EXCEPT ![j].attempts = attempts,
                                  ![j].send_time = lnow + retry_delay],
              heap |-> r.heap, err |-> r.err, drop |-> FALSE]
    ELSE [jobs |-> js, heap |-> heap, err |-> FALSE, drop |-> TRUE]

\* CapReached comparing with > instead of >=.
CapReachedStrict(max_messages, messages_sent) ==
    max_messages # None /\ messages_sent > max_messages

\* Line 169: the send cap of this run is reached.
CapReached(max_messages, messages_sent) ==
    max_messages # None /\ messages_sent >= max_messages

\* Line 188: the item is not yet due.
NotDue(send_time, t) == send_time > t

\* Lines 162-172: the loop condition, the pause check and the send cap.
loop_top(t) ==
    /\ threads[t].pc = "top"
    /\ IF ~is_running
       THEN /\ threads' = [threads EXCEPT ![t].pc = "done"]
            /\ is_running' = is_running
            /\ last' = Quiet
       ELSE IF is_paused
       THEN /\ UNCHANGED <<threads, is_running>>
            /\ last' = Quiet
       ELSE IF CapReached(threads[t].max_messages, threads[t].messages_sent)
       THEN IF threads[t].auto_stop
            THEN \* self.stop(): joining the calling thread raises RuntimeError
                 /\ is_running' = FALSE
                 /\ threads' = [threads EXCEPT ![t].pc =
                                  IF current_thread = t THEN "raised" ELSE "done"]
                 /\ last' = [op |-> "cap_stop", t |-> t, job |-> None, snapshot |-> FALSE]
            ELSE /\ threads' = [threads EXCEPT ![t].pc = "done"]
                 /\ is_running' = is_running
                 /\ last' = [op |-> "cap_break", t |-> t, job |-> None, snapshot |-> FALSE]
       ELSE /\ threads' = [threads EXCEPT ![t].pc = "pop"]
            /\ is_running' = is_running
            /\ last' = Quiet
    /\ UNCHANGED <<stats, message_history, calls, delivered, dropped,
                   message_queue, priority_queue, jobs, late, current_pattern,
                   position_in_pattern, sent_messages_count, file>>
    /\ LoopFrame

\* Lines 186-195 and _send_message up to the transport call, for the popped
\* item j with the queues as the pop left them.
Process(t, j, heap, fifo) ==
    IF NotDue(jobs[j].send_time, now)
    THEN \* not yet due: put it back and sleep
         LET r == heappush(heap, <<jobs[j].priority, j>>)
         IN  /\ priority_queue' = r.heap
             /\ message_queue' = fifo
             /\ threads' = [threads EXCEPT ![t].pc =
                              IF r.err THEN "raised" ELSE "top"]
             /\ last' = [op |-> "notdue", t |-> t, job |-> j, snapshot |-> FALSE]
             /\ UNCHANGED <<jobs, stats, calls, dropped, current_pattern,
                            position_in_pattern>>
    ELSE IF ~check_limits(message_history, hourly_limit, now)
    THEN \* denied: defer by 5 minutes under key 1 (a TypeError of this put is
         \* caught in _send_message), return False, then lines 205-217
         LET deferred == [jobs EXCEPT ![j].send_time = now + DENY_DELAY]
             d == heappush(heap, <<DENY_PRIORITY, j>>)
             f == FailPath(deferred, d.heap, j, now)
         IN  /\ jobs' = f.jobs
             /\ priority_queue' = f.heap
             /\ message_queue' = fifo
             /\ stats' = [stats EXCEPT !.total_failed = @ + 1]
             /\ dropped' = [dropped EXCEPT ![j] = @ + (IF f.drop THEN 1 ELSE 0)]
             /\ threads' = [threads EXCEPT ![t].pc =
                              IF f.err THEN "raised" ELSE "top"]
             /\ last' = [op |-> "deny", t |-> t, job |-> j,
                         snapshot |-> ~f.err
                                      /\ print_stats(threads[t].messages_sent)]
             /\ UNCHANGED <<calls, current_pattern, position_in_pattern>>
    ELSE \* allowed: get_smart_delay moves the cursor, then
         \* client.send_message is called
         /\ LET c == CursorAfter(get_messages_last_hour(message_history, now),
                                 hourly_limit, current_pattern,
                                 position_in_pattern)
            IN  /\ current_pattern' = c.current_pattern
                /\ position_in_pattern' = c.position_in_pattern
         /\ priority_queue' = heap
         /\ message_queue' = fifo
         /\ threads' = [threads EXCEPT ![t].pc = "xmit", ![t].item = j,
                                       ![t].now = now]
         /\ calls' = [calls EXCEPT ![j] = @ + 1]
         /\ last' = [op |-> "call", t |-> t, job |-> j, snapshot |-> FALSE]
         /\ UNCHANGED <<jobs, stats, dropped>>

\* Lines 174-195: _get_next_message, then the item is processed or the loop
\* finds nothing to do.
iterate(t) ==
    /\ threads[t].pc = "pop"
    /\ IF priority_queue # <<>>
       THEN LET r == heappop(priority_queue)
            IN  IF r.err
                THEN \* get raised inside the thread; the root entry is gone
                     /\ priority_queue' = r.heap
                     /\ threads' = [threads EXCEPT ![t].pc = "raised"]
                     /\ last' = [op |-> "pop_error", t |-> t, job |-> r.item[2],
                                 snapshot |-> FALSE]
                     /\ UNCHANGED <<message_queue, jobs, stats, calls, dropped,
                                    current_pattern, position_in_pattern>>
                ELSE Process(t, r.item[2], r.heap, message_queue)
       ELSE IF message_queue # <<>>
       THEN Process(t, Head(message_queue), priority_queue, Tail(message_queue))
       ELSE /\ threads' = [threads EXCEPT ![t].pc = "empty"]
            /\ last' = Quiet
            /\ UNCHANGED <<message_queue, priority_queue, jobs, stats, calls,
                           dropped, current_pattern, position_in_pattern>>
    \* history: a pop that yielded a job while paused, a call begun while stopped
    /\ late' = [stop |-> late.stop + (IF last'.op = "call" /\ ~is_running
                                      THEN 1 ELSE 0),
                pause |-> late.pause + (IF last'.op # "none" /\ is_paused
                                        THEN 1 ELSE 0)]
    /\ UNCHANGED <<is_running, message_history, delivered, sent_messages_count, file>>
    /\ LoopFrame

\* The transport returns (an exception of the transport is caught and is a
\* failure); lines 277-282 and 197-217.
Outcomes == IF stub = "ok" THEN {TRUE} ELSE IF stub = "fail" THEN {FALSE}
            ELSE BOOLEAN

transmit(t) ==
    /\ threads[t].pc = "xmit"
    /\ LET j == threads[t].item
       IN \E success \in Outcomes :
          LET history == IF success
                         THEN record_message_sent(message_history, now)
                         ELSE message_history
              count == IF success THEN sent_messages_count + 1
                       ELSE sent_messages_count
              saving == success /\ save_due(count)
              \* an exception leaving record_message_sent is caught at line
              \* 278 and makes _send_message return False
              returned == success /\ ~(saving /\ save_raises(disk))
          IN
          /\ message_history' = history
          /\ sent_messages_count' = count
          /\ file' = IF saving
                     THEN write_file(disk, file, save_history(history, count))
                     ELSE file
          /\ delivered' = [delivered EXCEPT
                             ![j] = @ + (IF success THEN 1 ELSE 0)]
          /\ IF returned
             THEN /\ stats' = [stats EXCEPT !.total_sent = @ + 1]
                  /\ threads' = [threads EXCEPT ![t].pc = "top",
                                                ![t].item = None,
                                                ![t].now = 0,
                                                ![t].messages_sent = @ + 1]
                  /\ last' = [op |-> "sent", t |-> t, job |-> j,
                              snapshot |->
                                 print_stats(threads[t].messages_sent + 1)]
                  /\ UNCHANGED <<jobs, priority_queue, dropped>>
             ELSE LET f == FailPath(jobs, priority_queue, j, threads[t].now)
                  IN  /\ jobs' = f.jobs
                      /\ priority_queue' = f.heap
                      /\ stats' = [stats EXCEPT !.total_failed = @ + 1]
                      /\ dropped' = [dropped EXCEPT
                                       ![j] = @ + (IF f.drop THEN 1 ELSE 0)]
                      /\ threads' = [threads EXCEPT
                                       ![t].pc = IF f.err THEN "raised"
                                                 ELSE "top",
                                       ![t].item = None, ![t].now = 0]
                      /\ last' = [op |-> IF f.drop THEN "drop" ELSE "fail",
                                  t |-> t, job |-> j,
                                  snapshot |->
                                     ~f.err
                                     /\ print_stats(threads[t].messages_sent)]
    /\ UNCHANGED <<is_running, message_queue, calls, late, current_pattern,
                   position_in_pattern>>
    /\ LoopFrame

\* Lines 176-184: nothing was popped.
empty_check(t) ==
    /\ threads[t].pc = "empty"
    /\ threads' = [threads EXCEPT ![t].pc =
                     IF threads[t].auto_stop /\ message_queue = <<>>
                        /\ priority_queue = <<>>
                     THEN "stopping" ELSE "top"]
    /\ last' = Quiet
    /\ UNCHANGED <<is_running, stats, message_history, calls, delivered, dropped,
                   message_queue, priority_queue, jobs, late, current_pattern,
                   position_in_pattern, sent_messages_count, file>>
    /\ LoopFrame

\* Line 180: self.stop() from the loop.
stop_self(t) ==
    /\ threads[t].pc = "stopping"
    /\ is_running' = FALSE
    /\ threads' = [threads EXCEPT ![t].pc =
                     IF current_thread = t THEN "raised" ELSE "done"]
    /\ last' = [op |-> "empty_stop", t |-> t, job |-> None, snapshot |-> FALSE]
    /\ UNCHANGED <<stats, message_history, calls, delivered, dropped,
                   message_queue, priority_queue, jobs, late, current_pattern,
                   position_in_pattern, sent_messages_count, file>>
    /\ LoopFrame

MaxMessages == {None, 1}

Adds(ps, ds) == \E p \in ps, d \in ds : add_message_to_queue(p, d)
Starts(ms, as) == \E m \in ms, a \in as : start(m, a)
Loop ==
    \/ \E t \in ThreadIds : loop_top(t)
    \/ \E t \in ThreadIds : iterate(t)
    \/ \E t \in ThreadIds : transmit(t)
    \/ \E t \in ThreadIds : empty_check(t)
    \/ \E t \in ThreadIds : stop_self(t)

(***************************************************************************)
(* Spec: every operation, called in any order by the controlling thread    *)
(* (a bounded number of calls within a bounded time).                      *)
(***************************************************************************)
Budget == ops < MaxOps

Next ==
    \/ Adds(Priorities, SendDelays \cup {None})
    \/ Budget /\ Starts(MaxMessages, BOOLEAN)
    \/ Budget /\ stop
    \/ Budget /\ pause
    \/ Budget /\ resume
    \/ join_returns
    \/ \E chats \in 1..MaxJobs, messages_count \in 1..MaxJobs,
          delay_between \in SendDelays \cup {None} :
            create_broadcast_campaign(chats, messages_count, delay_between)
    \/ get_queue_status
    \/ mutate_returned
    \/ \E u \in 0..MaxU, hour \in Hours : smart_delay(u, hour)
    \/ now < TICK * CtlTicks /\ Tick
    \/ Loop

Spec == Init /\ [][Next]_vars

(***************************************************************************)
(* SpecCtl: the controlling thread calls start, stop, pause and resume in  *)
(* any order around the processing of a single job.                        *)
(***************************************************************************)
NextCtl ==
    \/ njobs = 0 /\ Adds(Priorities, {None, TICK})
    \/ Budget /\ Starts(MaxMessages, BOOLEAN)
    \/ Budget /\ stop
    \/ Budget /\ pause
    \/ Budget /\ resume
    \/ join_returns
    \/ now = 0 /\ Tick
    \/ Loop

SpecCtl == Init /\ [][NextCtl]_vars

(***************************************************************************)
(* SpecRun: one run.  Jobs are enqueued, the scheduler is started once, at *)
(* any later time, and left to run; the transport may fail or succeed on   *)
(* each call.                                                              *)
(***************************************************************************)
NextRun ==
    \/ current_thread = None /\ now = 0 /\ Adds(Priorities, SendDelays \cup {None})
    \/ current_thread = None /\ njobs > 0 /\ Starts(MaxMessages, BOOLEAN)
    \/ Tick
    \/ Loop

SpecRun == Init /\ [][NextRun]_vars

(***************************************************************************)
(* SpecRetry: one run over immediate jobs; every call of the transport may *)
(* fail or succeed and the loaded history may have the hourly cap reached. *)
(***************************************************************************)
NextRetry ==
    \/ current_thread = None /\ now = 0 /\ Adds(Priorities, {None})
    \/ current_thread = None /\ now = 0 /\ njobs > 0 /\ Starts({None}, BOOLEAN)
    \/ Tick
    \/ Loop

SpecRetry == Init /\ [][NextRetry]_vars

(***************************************************************************)
(* SpecRestart: jobs are enqueued, then the controlling thread starts and  *)
(* stops the scheduler in any order.                                       *)
(***************************************************************************)
NextRestart ==
    \/ current_thread = None /\ Adds(Priorities, {None})
    \/ Budget /\ njobs > 0 /\ Starts(MaxMessages, BOOLEAN)
    \/ Budget /\ stop
    \/ join_returns
    \/ now < TICK * CtlTicks /\ Tick
    \/ Loop

SpecRestart == Init /\ [][NextRestart]_vars

(***************************************************************************)
(* SpecA: immediate jobs, a transport that always succeeds, empty history, *)
(* then start(max_messages = m, auto_stop = True) with 0 < m <= n.         *)
(***************************************************************************)
InitA == InitWith({"ok"}, {0})

\* The cap is reached before a pop can find the queues empty, so the loop
\* never takes its empty-queue path here.
NextA ==
    \/ current_thread = None /\ Adds(Priorities, {None})
    \/ current_thread = None /\ Starts(1..njobs, {TRUE})
    \/ Tick
    \/ \E t \in ThreadIds : loop_top(t)
    \/ \E t \in ThreadIds : iterate(t)
    \/ \E t \in ThreadIds : transmit(t)

SpecA == InitA /\ [][NextA]_vars

(***************************************************************************)
(* SpecB: exactly one job, a transport that always fails, empty history,   *)
(* one start.                                                              *)
(***************************************************************************)
InitB == InitWith({"fail"}, {0})

NextB ==
    \/ njobs = 0 /\ Adds(Priorities, SendDelays \cup {None})
    \/ current_thread = None /\ njobs = 1 /\ Starts(MaxMessages, BOOLEAN)
    \/ Tick
    \/ Loop

SpecB == InitB /\ [][NextB]_vars

(***************************************************************************)
(* SpecHalt: jobs are enqueued, then the controlling thread starts the     *)
(* scheduler and halts it: stop() and pause() are called while it runs,    *)
(* resume() while it is paused; a stopped scheduler may be started again.  *)
(***************************************************************************)
NextHalt ==
    \/ current_thread = None /\ Adds(Priorities, {None})
    \/ Budget /\ njobs > 0 /\ Starts({None}, BOOLEAN)
    \/ is_running /\ stop
    \/ is_running /\ ~is_paused /\ pause
    \/ is_running /\ is_paused /\ Budget /\ resume
    \/ join_returns
    \/ now < TICK * CtlTicks /\ Tick
    \/ Loop

SpecHalt == Init /\ [][NextHalt]_vars

(***************************************************************************)
(* SpecStatus: one job and one run, stopped and paused by the controlling  *)
(* thread, observed through get_queue_status at any point.                 *)
(***************************************************************************)
NextStatus ==
    \/ njobs = 0 /\ Adds(Priorities, {None})
    \/ current_thread = None /\ Starts(MaxMessages, BOOLEAN)
    \/ Budget /\ stop
    \/ Budget /\ pause
    \/ join_returns
    \/ Loop
    \/ get_queue_status
    \/ mutate_returned

SpecStatus == Init /\ [][NextStatus]_vars

(***************************************************************************)
(* SpecCampaign: campaigns are created, then the scheduler is started once *)
(* and left to run.                                                        *)
(***************************************************************************)
NextCampaign ==
    \/ /\ current_thread = None
       /\ \E chats \in 1..MaxJobs, messages_count \in 1..MaxJobs,
             delay_between \in {None, TICK} :
               create_broadcast_campaign(chats, messages_count, delay_between)
    \/ current_thread = None /\ njobs > 0 /\ Starts(MaxMessages, BOOLEAN)
    \/ Tick
    \/ Loop

SpecCampaign == Init /\ [][NextCampaign]_vars

(***************************************************************************)
(* SpecDelay: get_smart_delay is called again and again, in every load     *)
(* tier, at any hour, while the loaded records age out of the last hour.   *)
(***************************************************************************)
InitDelay == InitWith({"ok"}, DelayPreloads)

NextDelay ==
    \/ \E u \in 0..MaxU, hour \in Hours : smart_delay(u, hour)
    \/ Tick

SpecDelay == InitDelay /\ [][NextDelay]_vars

(***************************************************************************)
(* SpecLimits: one run over immediate jobs with a transport that always    *)
(* succeeds, started on a loaded history of up to a few hundred records.   *)
(***************************************************************************)
InitLimits ==
    InitHistory({"ok"}, {History(a, d, h) :
                           a \in AncientLoads, d \in DayLoads, h \in HourLoads})

NextLimits ==
    \/ current_thread = None /\ Adds(Priorities, {None})
    \/ current_thread = None /\ njobs > 0 /\ Starts({None}, {TRUE})
    \/ now < TICK * CtlTicks /\ Tick
    \/ Loop

SpecLimits == InitLimits /\ [][NextLimits]_vars

(***************************************************************************)
(* SpecLoad: the constructor reaches load_history with an empty history    *)
(* (lines 17-18) and any file; when it returns, one job is processed.      *)
(***************************************************************************)
InitLoad == InitWith({"any"}, {0})

Constructed == ret.op = "load_history" /\ ~ret.raised

NextLoad ==
    \/ ret.op = "none" /\ \E f \in Files : load_history(f)
    \/ Constructed /\ njobs = 0 /\ Adds(Priorities, {None})
    \/ Constructed /\ current_thread = None /\ njobs > 0 /\ Starts({None}, {TRUE})
    \/ Constructed /\ now < TICK * CtlTicks /\ Tick
    \/ Constructed /\ Loop

SpecLoad == InitLoad /\ [][NextLoad]_vars

(***************************************************************************)
(* SpecDisk: one run over immediate jobs by a process that loaded a        *)
(* history file written by earlier processes (old records, so that no      *)
(* limit is near); writes of the file succeed or fail.                     *)
(***************************************************************************)
\* history length and running total of the loaded file: the next send is
\* the 10th of the total, with a short history and with a full one
DiskLoads == {<<9, 9>>, <<HISTORY_KEPT, HISTORY_KEPT + 9>>}
DiskFiles ==
    {[shape |-> "object", history |-> History(l[1], 0, 0), total |-> l[2]] :
        l \in DiskLoads}

InitDisk == InitFile({"any"}, DiskFiles, Disks)

NextDisk ==
    \/ current_thread = None /\ now = 0 /\ Adds(Priorities, {None})
    \/ current_thread = None /\ njobs > 0 /\ Starts({None}, BOOLEAN)
    \/ now < TICK * CtlTicks /\ Tick
    \/ Loop

SpecDisk == InitDisk /\ [][NextDisk]_vars

(***************************************************************************)
(* SpecPush: jobs are pushed, with and without a send time, before and     *)
(* while one run with a transport that always succeeds processes them.     *)
(***************************************************************************)
InitPush == InitWith({"ok"}, {0})

NextPush ==
    \/ Adds(Priorities, {None, TICK})
    \/ current_thread = None /\ Starts({None}, BOOLEAN)
    \/ now < TICK * CtlTicks /\ Tick
    \/ Loop

SpecPush == InitPush /\ [][NextPush]_vars

(***************************************************************************)
(* SpecClash: one run over jobs of the default priority 5 and of priority  *)
(* 10, the key under which a failed job of priority 5 is queued again.     *)
(***************************************************************************)
DEFAULT_PRIORITY == 5
ClashPriorities == {DEFAULT_PRIORITY, DEFAULT_PRIORITY + RETRY_PRIORITY_SHIFT}

InitClash == InitWith({"ok", "fail", "any"}, {0})

NextClash ==
    \/ current_thread = None /\ now = 0 /\ Adds(ClashPriorities, {None, TICK})
    \/ current_thread = None /\ njobs > 0 /\ Starts({None}, BOOLEAN)
    \/ Tick
    \/ Loop

SpecClash == InitClash /\ [][NextClash]_vars

(***************************************************************************)
(* Properties.                                                             *)
(***************************************************************************)
RECURSIVE CountIn(_, _)
CountIn(q, j) ==
    IF q = <<>> THEN 0 ELSE (IF Head(q) = j THEN 1 ELSE 0) + CountIn(Tail(q), j)

RECURSIVE CountKeyed(_, _)
CountKeyed(h, j) ==
    IF h = <<>> THEN 0 ELSE (IF Head(h)[2] = j THEN 1 ELSE 0) + CountKeyed(Tail(h), j)

InFlight(j) == Cardinality({t \in ThreadIds : threads[t].pc = "xmit" /\ threads[t].item = j})

\* Number of places that hold job j: queue entries and loops attempting it.
Holders(j) == CountIn(message_queue, j) + CountKeyed(priority_queue, j) + InFlight(j)

Created == 1..njobs

\* Transport calls for job j that have returned a failure.
TransportFailures(j) == calls[j] - delivered[j] - InFlight(j)

\* C1: every job that was neither delivered nor dropped is held exactly once
\* (one queue entry, or in flight in a loop): never duplicated, never lost.
C1_ExactlyOneHolder ==
    \A j \in Created : (delivered[j] = 0 /\ dropped[j] = 0) => Holders(j) = 1

\* C2: a step in which check_limits denies a send leaves total_failed and the
\* job's attempt count unchanged.
C2_DenialNotCounted ==
    [][last'.op = "deny" =>
         /\ stats'.total_failed = stats.total_failed
         /\ jobs'[last'.job].attempts = jobs[last'.job].attempts]_vars

C5_CapStopsRun ==
    \A t \in ThreadIds :
        threads[t].pc \in {"done", "raised"} =>
            /\ stats.total_sent = threads[t].max_messages
            /\ ~is_running
            /\ Len(message_queue) + Len(priority_queue) = njobs - threads[t].max_messages

C5_Witness ==
    \E t \in ThreadIds :
        /\ threads[t].pc \in {"done", "raised"}
        /\ njobs = 2 /\ threads[t].max_messages = 1
        /\ stats.total_sent = 1 /\ Len(message_queue) = 1

\* C6: right after a rate-limit denial the denied job is held once, in the
\* scheduled queue under the elevated key, with scheduled_time = denial time
\* + 5 minutes.
C6_DeferredFiveMinutes ==
    last.op = "deny" =>
        /\ jobs[last.job].send_time = now + DENY_DELAY
        /\ CountKeyed(priority_queue, last.job) = 1
        /\ \E i \in 1..Len(priority_queue) :
               priority_queue[i] = <<DENY_PRIORITY, last.job>>

\* C7: the number of sends recorded within the last hour never exceeds the
\* hourly cap.
C7_HourlyCapKept == get_messages_last_hour(message_history, now) <= hourly_limit

\* C8: when the minimum of the scheduled queue is not yet due and a job waits
\* in the FIFO, the pop takes the FIFO's head in the same step.
C8_FallsThroughToFifo ==
    [][\A t \in ThreadIds :
          (/\ threads[t].pc = "pop" /\ threads'[t].pc # "pop"
           /\ priority_queue # <<>> /\ message_queue # <<>>
           /\ ~heappop(priority_queue).err
           /\ NotDue(jobs[heappop(priority_queue).item[2]].send_time, now))
          => message_queue' = Tail(message_queue)]_vars

\* C9: of two jobs in the scheduled queue under the same key with scheduled
\* times t1 < t2, both due, the pop never returns the t2 job.
C9_EarlierFirst ==
    [][\A t \in ThreadIds, i, k \in 1..Len(priority_queue) :
          (/\ threads[t].pc = "pop" /\ threads'[t].pc # "pop"
           /\ priority_queue[i][1] = priority_queue[k][1]
           /\ jobs[priority_queue[i][2]].send_time < jobs[priority_queue[k][2]].send_time
           /\ jobs[priority_queue[k][2]].send_time <= now
           /\ last'.op \in {"call", "deny", "notdue"})
          => last'.job # priority_queue[k][2]]_vars

\* C10: start() called while is_running is set (Running or Paused) is refused
\* and changes nothing: run state, pause flag, start_time, the loops and the
\* current thread stay as they were.
C10_StartRefused ==
    [][(last'.op \in {"start", "start_refused"} /\ is_running) =>
          /\ last'.op = "start_refused"
          /\ UNCHANGED <<is_running, is_paused, stats, threads, current_thread>>]_vars

C10_Witness == last.op = "start_refused" /\ is_paused /\ is_running

\* C11: right after the loop has left because the send cap (max_messages) was
\* reached, with auto_stop set or not, the scheduler is stopped (is_running is
\* cleared).
C11_CapExitStops == last.op \in {"cap_stop", "cap_break"} => ~is_running

\* C12: once stop() has cleared is_running, and until the scheduler is started
\* again, the loops begin at most one further delivery attempt.
C12_OneAttemptAfterStop == ~is_running => late.stop <= 1

\* C13: while the pause flag stays set, at most one iteration (the one that
\* was already past the pause check) pops a job; no further job is popped or
\* delivered until resume().
C13_OneIterationAfterPause == is_paused => late.pause <= 1

\* C14: a call of get_queue_status changes neither queue, neither flag nor the
\* statistics and reports them as they are; writing into the returned
\* statistics leaves the scheduler's statistics unchanged.
C14_StatusPure ==
    [][/\ last'.op = "status" =>
             /\ UNCHANGED <<message_queue, priority_queue, is_running,
                            is_paused, stats, threads, jobs>>
             /\ ret'.immediate_queue = Len(message_queue)
             /\ ret'.scheduled_queue = Len(priority_queue)
             /\ ret'.is_running = is_running
             /\ ret'.is_paused = is_paused
             /\ ret'.stats = stats
       /\ last'.op = "mutate" =>
             UNCHANGED <<message_queue, priority_queue, is_running,
                         is_paused, stats>>]_vars

C14_Witness ==
    /\ last.op = "mutate" /\ ret.stats # stats
    /\ is_running /\ is_paused /\ stats.total_sent + stats.total_failed > 0

\* C15: right after create_broadcast_campaign with d destinations, k messages
\* per destination and a delay_between, the call has returned normally and
\* exactly d*k new jobs exist, each held once in the queues with priority 3;
\* with a delay the job of repeat index i is in the scheduled queue with
\* scheduled_time = creation time + delay_between*(i+1).
C15_CampaignJobs ==
    last.op = "campaign" =>
        LET total == ret.chats * ret.messages_count
        IN  /\ ~ret.raised
            /\ njobs = ret.first + total
            /\ \A n \in 1..total :
                   LET j == ret.first + n
                       i == (n - 1) % ret.messages_count
                   IN  /\ jobs[j].priority = 3
                       /\ Holders(j) = 1
                       /\ ret.delay_between # None =>
                              /\ CountKeyed(priority_queue, j) = 1
                              /\ jobs[j].send_time =
                                     ret.time + ret.delay_between * (i + 1)

\* C16: every delay returned by get_smart_delay, in every load tier and at
\* every hour, lies between 2.0*0.7 s and 10.0 s; outside the night hours
\* [0, 6) it lies between 2.0 s and 10.0 s.
C16_DelayBounds ==
    ret.op = "get_smart_delay" =>
        /\ (min_delay * NIGHT_FACTOR_TENTHS) \div 10 <= ret.delay
        /\ ret.delay <= max_delay
        /\ ~Night(ret.hour) => min_delay <= ret.delay

C16_Witness ==
    /\ ret.op = "get_smart_delay" /\ Night(ret.hour)
    /\ ret.delay = (min_delay * NIGHT_FACTOR_TENTHS) \div 10
    /\ get_messages_last_hour(message_history, now) = 0

\* The number of history records within the last 24 hours.
DayCount(h, t) == CountAfter(h, t - DAY)

\* What the claim calls Denied.
OverLimit(h, t) ==
    \/ get_messages_last_hour(h, t) >= hourly_limit
    \/ DayCount(h, t) >= daily_limit

\* C17: whenever the loop consults check_limits for a due job, the send is
\* denied if the history holds at least hourly_limit records of the last hour
\* or at least 200 records of the last 24 hours, and allowed otherwise.
C17_DeniedIffOverLimit ==
    [][/\ last'.op = "deny" => OverLimit(message_history, now)
       /\ last'.op = "call" => ~OverLimit(message_history, now)]_vars

C17_Witness ==
    /\ last.op = "deny"
    /\ get_messages_last_hour(message_history, now) < hourly_limit
    /\ DayCount(message_history, now) = daily_limit
    /\ stats.total_sent = 1

\* C18: load_history never raises, and with a file that is missing, is not
\* JSON or is JSON of an unexpected shape it leaves an empty history and a
\* total of 0.
C18_LoadNeverFails ==
    last.op = "load" =>
        /\ ~ret.raised
        /\ ret.file # "object" => message_history = <<>> /\ sent_messages_count = 0

\* C19: at any time at most one processing loop is alive and at most one
\* transport send is in flight.
C19_SingleConsumer ==
    /\ Cardinality({t \in ThreadIds : Alive(t)}) <= 1
    /\ Cardinality({t \in ThreadIds : threads[t].pc = "xmit"}) <= 1

\* C20: when a job is reported as not sent, that failed attempt is counted in
\* total_failed and it is reported once; from then on the job is in neither
\* queue and is not attempted again.
C20_ExhaustionTerminal ==
    [][\A j \in JobIds :
          dropped'[j] >= 1 =>
              /\ Holders(j)' = 0
              /\ dropped'[j] > dropped[j] =>
                     /\ dropped[j] = 0
                     /\ stats'.total_failed = stats.total_failed + 1]_vars

C22_PauseOnlyFromRunning ==
    [][(~is_running /\ ~is_running') => is_paused' = is_paused]_vars

\* C23: whenever a loop stops the scheduler through the empty-queue path, the
\* loop was started with auto_stop and no job is in either queue at that
\* moment, also when jobs are enqueued while the loop runs.
C23_StopsOnlyWhenEmpty ==
    last.op = "empty_stop" =>
        /\ message_queue = <<>>
        /\ priority_queue = <<>>
        /\ threads[last.t].auto_stop

RECURSIVE SumTo(_, _)
SumTo(f, n) == IF n = 0 THEN 0 ELSE f[n] + SumTo(f, n - 1)

\* Successful deliveries of the transport so far, over all jobs.
Deliveries == SumTo(delivered, MaxJobs)

C25_FailureKeepsLoop ==
    last.op \in {"fail", "drop"} => threads[last.t].pc = "top"

C27_IdleOnlyIfNoneDue ==
    [][last'.op = "notdue" =>
          \A i \in 1..Len(priority_queue) :
              NotDue(jobs[priority_queue[i][2]].send_time, now)]_vars

\* C28: a run started with auto_stop and without max_messages over jobs of
\* pairwise different priorities, an empty history and a transport that always
\* succeeds, or always fails, ends only in the state Stopped with both queues
\* empty and total_sent equal to the number of jobs, or to 0.
C28_EndsStopped ==
    (/\ current_thread # None
     /\ threads[current_thread].pc \in {"done", "raised"}
     /\ threads[current_thread].auto_stop
     /\ stub \in {"ok", "fail"}
     /\ \A j \in Created : \A k \in Created :
           j # k => jobs[j].priority # jobs[k].priority) =>
        /\ ~is_running
        /\ message_queue = <<>> /\ priority_queue = <<>>
        /\ stats.total_sent = IF stub = "ok" THEN njobs ELSE 0

\* C29: a statistics snapshot is emitted only by a step in which a send
\* succeeded and brought the run's count of successful sends to a positive
\* multiple of 10: never by a failed attempt or a rate-limit denial, never
\* before the first successful send.
C29_SnapshotOnTenthSend ==
    last.snapshot =>
        /\ last.op = "sent"
        /\ threads[last.t].messages_sent > 0
        /\ threads[last.t].messages_sent % 10 = 0

\* C30 as stated: every call of record_message_sent appends one record, and
\* the history file is written exactly by the 10th, 20th, ... call made in
\* this process.
C30_EveryTenthCall ==
    [][last'.op = "sent" =>
          /\ Len(message_history') = Len(message_history) + 1
          /\ (file' # file) <=> (Deliveries' % 10 = 0)]_vars

\* C30 as amended: every call of record_message_sent appends one record and
\* adds one to the running total, which starts from the total loaded at
\* startup, and the history file is written exactly by the calls that bring
\* this running total to a multiple of 10.
C30_EveryTenthTotal ==
    [][/\ sent_messages_count' - Deliveries' = sent_messages_count - Deliveries
       /\ last'.op = "sent" =>
             /\ Len(message_history') = Len(message_history) + 1
             /\ sent_messages_count' = sent_messages_count + 1
             /\ (file' # file) <=> (sent_messages_count' % 10 = 0)
       /\ file' # file =>
             /\ last'.op = "sent"
             /\ file'.total = sent_messages_count']_vars

C30_Witness ==
    /\ last.op = "sent" /\ Deliveries = 1
    /\ sent_messages_count = 30 /\ file.total = 30
    /\ Len(file.history) = 30

\* C31: the in-memory send history never holds more than 1000 records, and
\* the history written to the file never holds more than 1000 records, which
\* are the most recent ones of the history in memory.
C31_BoundedRing ==
    /\ Len(message_history) <= 1000
    /\ Len(file.history) <= 1000
    /\ (file.shape = "object" /\ file.total = sent_messages_count) =>
          file.history = LastRecords(message_history, 1000)

\* C32: when a successful send makes record_message_sent write the history
\* file and the write fails, the record is appended and the running total
\* incremented all the same, the send is counted as sent, and the loop that
\* made it goes on: it is back at the head of its loop and is_running is as
\* it was.
C32_FailedWriteHarmless ==
    [][(/\ message_history' # message_history
        /\ save_due(sent_messages_count + 1)
        /\ disk # "ok") =>
          /\ message_history' = Append(message_history, now)
          /\ sent_messages_count' = sent_messages_count + 1
          /\ file' # save_history(message_history', sent_messages_count')
          /\ last'.op = "sent"
          /\ stats'.total_sent = stats.total_sent + 1
          /\ stats'.total_failed = stats.total_failed
          /\ threads'[last'.t].pc = "top"
          /\ is_running' = is_running]_vars

C32_Witness ==
    /\ disk = "full" /\ file = Truncated
    /\ last.op = "sent" /\ stats.total_sent = 1
    /\ sent_messages_count = 10 /\ Len(message_history) = 10
    /\ threads[last.t].pc = "top" /\ is_running

\* The cadence cursor as one index over the 4 patterns of 3 values.
CursorIndex == 3 * current_pattern + position_in_pattern

\* C33: the cadence cursor always designates an entry (pattern 0..3, position
\* 0..2); a call of get_smart_delay under low load (at most 50% of the hourly
\* limit sent in the last hour) moves it to the next of the 12 entries, from
\* the last one back to the first, so that 12 such calls bring it back to
\* where it was; a call in the tiers above 50% and above 80% leaves it where
\* it is.
C33_CursorCycles ==
    /\ [](current_pattern \in 0..3 /\ position_in_pattern \in 0..2)
    /\ [][now' = now =>
            LET m == get_messages_last_hour(message_history, now)
            IN  IF 2 * m > hourly_limit
                THEN /\ current_pattern' = current_pattern
                     /\ position_in_pattern' = position_in_pattern
                ELSE CursorIndex' = (CursorIndex + 1) % 12]_vars

C33_Witness ==
    /\ ret.op = "get_smart_delay"
    /\ current_pattern = 3 /\ position_in_pattern = 2
    /\ Len(message_history) > 15
    /\ get_messages_last_hour(message_history, now) = 0

\* C34: a push without a send time appends the job to the immediate queue
\* and leaves the scheduled queue as it is; a push with a send time adds one
\* entry for the job, under its priority, to the scheduled queue and leaves
\* the immediate queue as it is; the immediate queue holds its jobs in the
\* order of their pushes and a pop takes its first job.
C34_PushRoutes ==
    /\ [](\A i \in 1..Len(message_queue) : \A k \in 1..Len(message_queue) :
             i < k => message_queue[i] < message_queue[k])
    /\ [][/\ njobs' # njobs =>
               /\ njobs' = njobs + 1
               /\ IF jobs'[njobs'].send_time = now
                  THEN /\ message_queue' = Append(message_queue, njobs')
                       /\ priority_queue' = priority_queue
                  ELSE /\ message_queue' = message_queue
                       /\ Len(priority_queue') = Len(priority_queue) + 1
                       /\ \E i \in 1..Len(priority_queue') :
                             priority_queue'[i] =
                                <<jobs'[njobs'].priority, njobs'>>
                       /\ \A e \in {priority_queue[i] :
                                       i \in 1..Len(priority_queue)} :
                             \E i \in 1..Len(priority_queue') :
                                priority_queue'[i] = e
          /\ (njobs' = njobs /\ message_queue' # message_queue) =>
               /\ message_queue # <<>>
               /\ message_queue' = Tail(message_queue)
               /\ last'.job = Head(message_queue)]_vars

C34_Witness ==
    /\ njobs = 2 /\ jobs[1].send_time = 0 /\ jobs[2].send_time = 0
    /\ delivered = [j \in JobIds |-> IF j <= 2 THEN 1 ELSE 0]
    /\ last.op = "sent" /\ last.job = 2

\* C35: a run started with max_messages = m > 0 adds at most m to total_sent:
\* once the loop of the current run has made m successful sends, total_sent
\* does not increase any more during that run.
C35_CapBoundsSends ==
    [][(/\ current_thread # None
        /\ threads[current_thread].max_messages > 0
        /\ threads[current_thread].messages_sent
              >= threads[current_thread].max_messages) =>
          stats'.total_sent = stats.total_sent]_vars

\* C36: start() is refused only while is_running is set; an accepted start
\* leaves the scheduler running and not paused, whatever is_paused was, and
\* does not change total_sent and total_failed; no step ever decreases them.
C36_StartReinitializes ==
    [][/\ last'.op = "start_refused" => is_running
       /\ last'.op = "start" =>
             /\ ~is_running
             /\ is_running' /\ ~is_paused'
             /\ stats'.total_sent = stats.total_sent
             /\ stats'.total_failed = stats.total_failed
       /\ stats'.total_sent >= stats.total_sent
       /\ stats'.total_failed >= stats.total_failed]_vars

\* A second start, accepted after the first run stopped itself and one more
\* call of stop(), pause() or resume() was made.
C36_Witness ==
    /\ last.op = "start" /\ ops = 3 /\ current_thread = 2
    /\ is_running /\ ~is_paused
    /\ stats.total_sent + stats.total_failed >= 1
    /\ threads[1].pc = "raised" /\ threads[1].auto_stop

\* C37: the transport reports success at most once for every job.
C37_DeliveredOnce == \A j \in JobIds : delivered[j] <= 1

\* C38: whenever is_running is set after a start, the processing loop of
\* that start is alive: it has neither returned nor ended by an exception.
C38_RunningHasLoop ==
    (is_running /\ current_thread # None) => Alive(current_thread)

\* C39: no push into the scheduled queue raises an error: not the put of
\* add_message_to_queue with a send time, not the put of a retry, not the put
\* that reinserts a job popped before it was due.
C39_DeferredPushSucceeds ==
    /\ last.op # "add_error"
    /\ last.op \in {"notdue", "fail"} => threads[last.t].pc # "raised"

\* Entries of the scheduled queue q equal to e.
CountEntry(q, e) == Cardinality({i \in 1..Len(q) : q[i] = e})

\* C40: a job popped from the scheduled queue before it is due goes back
\* under the key it was popped with: the queue holds the popped entry as
\* often after the step as before it.
C40_ReinsertKeepsKey ==
    [][(last'.op = "notdue" /\ priority_queue # <<>>) =>
          CountEntry(priority_queue', priority_queue[1])
             = CountEntry(priority_queue, priority_queue[1])]_vars

====
